---- MODULE Spec2Model ----
(***************************************************************************)
(* A model of the stoch character device (src/stoch2.c): an order-1 Markov *)
(* histogram over bytes, trained by write() and sampled by read().         *)
(*                                                                         *)
(* Scaling.  The source has 256 symbols (unsigned char) and 32-bit         *)
(* unsigned counters.  The model keeps both widths but makes them small:   *)
(* STOCH_HIST_SIZE symbols (the unsigned char range has exactly that many  *)
(* values, as 256 = 2^8 in the source) and counters that wrap at UINT_MOD. *)
(* Symbol 1 plays the part of byte 65 ('A').  Buffers are sequences, so    *)
(* position i of the source is index i+1 here.                             *)
(***************************************************************************)
EXTENDS Naturals, Sequences, FiniteSets

\* number of symbols, and the range of an unsigned char (256 in the source)
STOCH_HIST_SIZE == 3
\* range of an unsigned int (2^32 in the source)
UINT_MOD == 4
\* most bytes handed to one write()
MaxLen == 2
\* most bytes trained in one behaviour
MaxTrain == 4
\* largest count of one read()
MaxCount == 2
\* most bytes trained in one behaviour of the long-stream specification
MaxStream == 5

Sym == 0 .. (STOCH_HIST_SIZE - 1)
\* what get_random_bytes can yield
Rand == 0 .. (UINT_MOD - 1)

VARIABLES
    stoch_hist,   \* the static struct: [data: Sym -> [data: Sym -> count, total], total]
    stoch_prev,   \* static unsigned char stoch_prev
    op,           \* the last file operation that returned
    ret,          \* its return value
    trained,      \* every byte trained so far, in order (history)
    fresh,        \* no byte trained since construction or the last clear (history)
    wpre,         \* <<stoch_hist, stoch_prev>> before the last write (history)
    wbuf,         \* the buffer of the last write (history)
    rd,           \* what the last read did: count, draws, buffers
    wr,           \* a thread inside stoch_write: its position and locals
    gr,           \* a thread inside stoch_read: its position and locals
    ww,           \* two threads inside stoch_write, loads and stores apart
    vh,           \* a table under the sampler
    vdone,        \* the draws j % total tried on vh so far
    vhits         \* how often each symbol was returned for them

seqvars == <<op, ret, fresh, wpre, wbuf, rd>>
concvars == <<wr, gr, ww>>
valvars == <<vh, vdone, vhits>>
vars == <<stoch_hist, stoch_prev, trained, seqvars, concvars, valvars>>

--------------------------------------------------------------------------
(* the data *)

\* a zero-initialised struct _stoch_hist
ZeroTable == [data |-> [s \in Sym |-> 0], total |-> 0]

\* the zero-initialised static stoch_hist
ZeroHist == [data |-> [c \in Sym |-> ZeroTable], total |-> 0]

RECURSIVE SumTo(_, _)
\* f[0] + ... + f[k], exact
SumTo(f, k) == IF k = 0 THEN f[0] ELSE f[k] + SumTo(f, k - 1)

SumCounts(h) == SumTo(h.data, STOCH_HIST_SIZE - 1)

SumTotals(H) == SumTo([c \in Sym |-> H.data[c].total], STOCH_HIST_SIZE - 1)

--------------------------------------------------------------------------
(* training *)

\* a stoch_hist_update that forgets h->data[x]++
stoch_hist_update_no_count(H, c, x) ==
    IF x >= 0 /\ x < STOCH_HIST_SIZE
    THEN [H EXCEPT !.data[c].total = (@ + 1) % UINT_MOD,
                   !.total = (@ + 1) % UINT_MOD]
    ELSE H

\* stoch_hist_update(&stoch_hist.data[c], x)
stoch_hist_update(H, c, x) ==
    IF x >= 0 /\ x < STOCH_HIST_SIZE
    THEN [H EXCEPT !.data[c].data[x] = (@ + 1) % UINT_MOD,
                   !.data[c].total = (@ + 1) % UINT_MOD,
                   !.total = (@ + 1) % UINT_MOD]
    ELSE H

RECURSIVE write_loop(_, _, _, _)
\* the for loop of stoch_write from index i (1-based) on
write_loop(H, prev, buf, i) ==
    IF i > Len(buf)
    THEN [hist |-> H, prev |-> prev]
    ELSE write_loop(stoch_hist_update(H, prev, buf[i]), buf[i], buf, i + 1)

\* a stoch_write that begins each call in context 0 instead of stoch_prev
write_result_fresh_prev(H, prev, buf) == write_loop(H, 0, buf, 1)

\* the state stoch_write(buf) leaves, entered with stoch_prev = prev
write_result(H, prev, buf) == write_loop(H, prev, buf, 1)

--------------------------------------------------------------------------
(* clearing *)

\* sizeof(stoch_hist), in bytes of 4-byte unsigned ints
SizeofStochHist == 4 * (STOCH_HIST_SIZE * (STOCH_HIST_SIZE + 1) + 1)

\* memset(&stoch_hist, c, n) for the calls that matter: n = 0 writes
\* nothing; c = 0 over the whole object zeroes it
memset(H, c, n) ==
    IF n = SizeofStochHist /\ c = 0 THEN ZeroHist ELSE H

\* stoch_hists_clear: memset( &stoch_hist, sizeof(stoch_hist), 0 ), that is
\* fill value sizeof(stoch_hist), length 0
clear_result(H) == memset(H, SizeofStochHist, 0)

--------------------------------------------------------------------------
(* sampling *)

\* the value standing for a stoch_hist_val call whose loop never breaks
NoReturn == STOCH_HIST_SIZE

RECURSIVE val_loop(_, _, _, _, _)
\* the for loop of stoch_hist_val: i is an unsigned char, so i++ wraps and
\* i < STOCH_HIST_SIZE is always true; tot is an unsigned int.  The pair
\* (i, tot) has STOCH_HIST_SIZE * UINT_MOD values, so a walk longer than
\* that repeats a state and never ends.
val_loop(h, p, i, tot, steps) ==
    LET t == (tot + h.data[i]) % UINT_MOD
    IN  IF t >= p THEN i
        ELSE IF steps >= STOCH_HIST_SIZE * UINT_MOD THEN NoReturn
        ELSE val_loop(h, p, (i + 1) % STOCH_HIST_SIZE, t, steps + 1)

\* stoch_hist_val(h, prev) when get_random_bytes yields j (unused if total = 0):
\* p = (unsigned char)(j % h->total)
stoch_hist_val(h, j) ==
    IF h.total = 0 THEN 0
    ELSE val_loop(h, (j % h.total) % STOCH_HIST_SIZE, 0, 0, 0)

RECURSIVE start_loop(_, _, _, _)
\* the starting-point loop of stoch_hist_gen: tot and j are size_t
start_loop(H, i, j, tot) ==
    LET t == tot + H.data[j].total
    IN  IF t >= i \/ j + 1 >= STOCH_HIST_SIZE THEN j
        ELSE start_loop(H, i, j + 1, t)

\* the locals of stoch_hist_gen(buff, size) when its output loop is entered,
\* get_random_bytes having yielded r (unused if stoch_hist.total = 0).  used
\* counts the draws taken, calls the calls of stoch_hist_val.
gen_start(H, size, r) ==
    IF H.total = 0
    THEN [i |-> 0, pos |-> 0, prev |-> 0, start |-> 0, buff |-> <<>>,
          used |-> 0, calls |-> 0, hang |-> FALSE]
    ELSE LET j == start_loop(H, r % H.total, 0, 0)
         IN  [i |-> 0, pos |-> size, prev |-> j, start |-> j, buff |-> <<>>,
              used |-> 1, calls |-> 0, hang |-> FALSE]

\* an output loop that does not test pos == size and so samples on after
\* the terminator
gen_iter_resumes(H, size, L, j) ==
    LET h == H.data[L.prev]
        v == stoch_hist_val(h, j)
    IN  IF v = NoReturn
        THEN [L EXCEPT !.used = @ + 1, !.calls = @ + 1, !.hang = TRUE]
        ELSE [L EXCEPT !.buff = Append(@, v),
                       !.prev = v,
                       !.pos = IF v = 0 /\ @ = size THEN L.i ELSE @,
                       !.used = IF h.total # 0 THEN @ + 1 ELSE @,
                       !.calls = @ + 1,
                       !.i = @ + 1]

\* an output loop that forgets prev = buff[i] and so samples every byte from
\* the starting context
gen_iter_keeps_prev(H, size, L, j) ==
    IF L.pos = size
    THEN LET h == H.data[L.prev]
             v == stoch_hist_val(h, j)
         IN  IF v = NoReturn
             THEN [L EXCEPT !.used = @ + 1, !.calls = @ + 1, !.hang = TRUE]
             ELSE [L EXCEPT !.buff = Append(@, v),
                            !.pos = IF v = 0 THEN L.i ELSE @,
                            !.used = IF h.total # 0 THEN @ + 1 ELSE @,
                            !.calls = @ + 1,
                            !.i = @ + 1]
    ELSE [L EXCEPT !.buff = Append(@, 0), !.i = @ + 1]

\* one pass of the output loop of stoch_hist_gen, at index L.i (0-based),
\* get_random_bytes yielding j if stoch_hist_val asks for it
gen_iter(H, size, L, j) ==
    IF L.pos = size
    THEN LET h == H.data[L.prev]
             v == stoch_hist_val(h, j)
         IN  IF v = NoReturn
             THEN [L EXCEPT !.used = @ + 1, !.calls = @ + 1, !.hang = TRUE]
             ELSE [L EXCEPT !.buff = Append(@, v),
                            !.prev = v,
                            !.pos = IF v = 0 THEN L.i ELSE @,
                            !.used = IF h.total # 0 THEN @ + 1 ELSE @,
                            !.calls = @ + 1,
                            !.i = @ + 1]
    ELSE [L EXCEPT !.buff = Append(@, 0), !.i = @ + 1]

RECURSIVE gen_loop(_, _, _, _)
\* the output loop of stoch_hist_gen, fed the draws rnd in order
gen_loop(H, size, rnd, L) ==
    IF L.i >= size \/ L.hang THEN L
    ELSE gen_loop(H, size, rnd, gen_iter(H, size, L, rnd[L.used + 1]))

\* stoch_hist_gen(buff, size) fed the draws rnd; it returns pos
stoch_hist_gen(H, size, rnd) == gen_loop(H, size, rnd, gen_start(H, size, rnd[1]))

--------------------------------------------------------------------------
(* the file operations, one call at a time *)

\* end is how the call ended ("returned", or "oops" when a store faulted and
\* the kernel killed the caller); oob is set when a byte was stored outside
\* the kmalloc'ed tmp
NoRead == [count |-> 0, rnd |-> <<>>, start |-> 0, buff |-> <<>>, used |-> 0,
           calls |-> 0, ubuf |-> <<>>, end |-> "returned", oob |-> FALSE]

\* the record of stoch_read(count) fed rnd: tmp is filled by stoch_hist_gen,
\* then tmp[count-1] = 0, then all count bytes are copied to the user
read_result(H, count, rnd) ==
    LET g == stoch_hist_gen(H, count, rnd)
    IN  [count |-> count, rnd |-> SubSeq(rnd, 1, g.used), start |-> g.start,
         buff |-> g.buff, used |-> g.used, calls |-> g.calls,
         ubuf |-> [g.buff EXCEPT ![count] = 0],
         end |-> "returned", oob |-> FALSE]

\* the record of stoch_read(0): kmalloc(0), stoch_hist_gen(tmp, 0) takes its
\* starting draw r (if the model is not empty) and fills nothing, then
\* tmp[count-1] = 0 is a store at tmp[SIZE_MAX], outside the allocation:
\* undefined behaviour, which either faults or lands on a byte that is not
\* tmp's.  No path returns an error.  (The draw and the starting point it
\* chose are used by nothing and not recorded.)
read0_result(H, r, outcome) ==
    LET g == stoch_hist_gen(H, 0, <<r>>)
    IN  [NoRead EXCEPT !.buff = g.buff, !.used = g.used, !.calls = g.calls,
                       !.end = outcome, !.oob = (outcome = "returned")]

Buffers == UNION {[1 .. k -> Sym] : k \in 0 .. MaxLen}

\* the draws d, followed by zeros up to length k
PadTo(d, k) == [x \in 1 .. k |-> IF x <= Len(d) THEN d[x] ELSE 0]

IdleWriter == [pc |-> "idle", buf |-> <<>>, i |-> 0, c |-> 0]

\* a thread of the pair that has not called stoch_write yet; ld is the value
\* its last load fetched
IdleWriter2 == [pc |-> "idle", buf |-> <<>>, i |-> 0, c |-> 0, ld |-> 0]

Threads == {1, 2}

IdleReader == [pc |-> "idle", size |-> 0, L |-> gen_start(ZeroHist, 0, 0),
               ubuf |-> <<>>]

\* static initialisation, then stoch_init's stoch_hists_clear
InitModule ==
    /\ stoch_hist = clear_result(ZeroHist)
    /\ stoch_prev = 0
    /\ op = "init"
    /\ ret = 0
    /\ trained = <<>>
    /\ fresh = TRUE
    /\ wpre = <<clear_result(ZeroHist), 0>>
    /\ wbuf = <<>>
    /\ rd = NoRead
    /\ wr = IdleWriter
    /\ gr = IdleReader
    /\ ww = [t \in Threads |-> IdleWriter2]

Init ==
    /\ InitModule
    /\ vh = ZeroTable
    /\ vdone = {}
    /\ vhits = [s \in Sym |-> 0]

\* stoch_write(buf, count), the stream trained so far staying within limit;
\* "wwrite" marks a write that directly follows a write
write_call(limit) ==
    /\ \E buf \in Buffers :
        /\ Len(trained) + Len(buf) <= limit
        /\ LET w == write_result(stoch_hist, stoch_prev, buf)
           IN  /\ stoch_hist' = w.hist
               /\ stoch_prev' = w.prev
        /\ op' = IF op \in {"write", "wwrite"} THEN "wwrite" ELSE "write"
        /\ ret' = Len(buf)
        /\ trained' = trained \o buf
        /\ fresh' = (fresh /\ buf = <<>>)
        /\ wpre' = <<stoch_hist, stoch_prev>>
        /\ wbuf' = buf
        /\ rd' = NoRead
    /\ UNCHANGED <<concvars, valvars>>

stoch_write == write_call(MaxTrain)

\* a stoch_read whose generator keeps its context in the static stoch_prev
read_call_shared_prev(count, rnd) ==
    /\ ~stoch_hist_gen(stoch_hist, count, rnd).hang
    /\ rd' = read_result(stoch_hist, count, rnd)
    /\ ret' = stoch_hist_gen(stoch_hist, count, rnd).pos
    /\ stoch_prev' = stoch_hist_gen(stoch_hist, count, rnd).prev
    /\ wpre' = <<stoch_hist, stoch_prev>>
    /\ wbuf' = <<>>
    /\ UNCHANGED <<stoch_hist, trained, fresh, concvars, valvars>>

\* what stoch_read(count) fed rnd leaves
read_call(count, rnd) ==
    /\ ~stoch_hist_gen(stoch_hist, count, rnd).hang
    /\ rd' = read_result(stoch_hist, count, rnd)
    /\ ret' = stoch_hist_gen(stoch_hist, count, rnd).pos
    /\ wpre' = <<stoch_hist, stoch_prev>>
    /\ wbuf' = <<>>
    /\ UNCHANGED <<stoch_hist, stoch_prev, trained, fresh, concvars, valvars>>

RECURSIVE draw_paths(_, _, _, _)
\* the sequences of values get_random_bytes can yield to the calls that the
\* output loop of stoch_hist_gen makes from L on, rnd having been yielded
draw_paths(H, size, L, rnd) ==
    IF L.i >= size \/ L.hang THEN {rnd}
    ELSE IF L.pos = size /\ H.data[L.prev].total # 0
    THEN UNION {draw_paths(H, size, gen_iter(H, size, L, j), Append(rnd, j)) :
                    j \in Rand}
    ELSE draw_paths(H, size, gen_iter(H, size, L, 0), rnd)

\* the sequences of values get_random_bytes can yield to one
\* stoch_hist_gen(buff, size)
Draws(H, size) ==
    IF H.total = 0
    THEN draw_paths(H, size, gen_start(H, size, 0), <<>>)
    ELSE UNION {draw_paths(H, size, gen_start(H, size, j), <<j>>) : j \in Rand}

\* stoch_read(buf, count) after a write, a clear or the module's load
stoch_read ==
    /\ op \notin {"read", "reread"}
    /\ \E count \in 1 .. MaxCount :
        \E rnd \in Draws(stoch_hist, count) :
            read_call(count, PadTo(rnd, count + 1))
    /\ op' = "read"

\* the same stoch_read again, the randomness source replaying the same draws.
\* (Runs of reads are modelled as a read and its replay.)
stoch_reread ==
    /\ op = "read"
    /\ read_call(rd.count, PadTo(rd.rnd, rd.count + 1))
    /\ op' = "reread"

\* stoch_hists_clear(), called as the reset operation
stoch_hists_clear ==
    /\ stoch_hist' = clear_result(stoch_hist)
    /\ op' = "clear"
    /\ ret' = 0
    /\ fresh' = TRUE
    /\ wpre' = <<stoch_hist, stoch_prev>>
    /\ wbuf' = <<>>
    /\ rd' = NoRead
    /\ UNCHANGED <<stoch_prev, trained, concvars, valvars>>

\* stoch_read(buf, 0) after a write, a clear or the module's load (a read
\* leaves the model as it was, so a read of count 0 after a read does what
\* it does before it)
stoch_read0 ==
    /\ op \notin {"read", "reread", "read0"}
    /\ \E r \in Rand, outcome \in {"returned", "oops"} :
        /\ rd' = read0_result(stoch_hist, r, outcome)
        /\ ret' = IF outcome = "returned"
                  THEN stoch_hist_gen(stoch_hist, 0, <<r>>).pos
                  ELSE ret
    /\ op' = "read0"
    /\ wpre' = <<stoch_hist, stoch_prev>>
    /\ wbuf' = <<>>
    /\ UNCHANGED <<stoch_hist, stoch_prev, trained, fresh, concvars, valvars>>

Next ==
    \/ stoch_write
    \/ stoch_read
    \/ stoch_reread
    \/ stoch_read0
    \/ stoch_hists_clear

Spec == Init /\ [][Next]_vars

--------------------------------------------------------------------------
(* the same device trained with streams long enough for a context total    *)
(* to wrap while the global total is not 0                                  *)

stoch_write_stream == write_call(MaxStream)

NextStream == stoch_write_stream \/ stoch_read

SpecStream == Init /\ [][NextStream]_vars

--------------------------------------------------------------------------
(* the sampler alone: stoch_hist_val on one table, one draw after another *)

\* the tables whose total is the sum of their counts, none of them wrapped
Tables ==
    {h \in [data : [Sym -> 0 .. (UINT_MOD - 1)], total : 1 .. (UINT_MOD - 1)] :
        h.total = SumCounts(h)}

InitVal ==
    /\ InitModule
    /\ vh \in Tables
    /\ vdone = {}
    /\ vhits = [s \in Sym |-> 0]

\* one call of stoch_hist_val(&vh, ...) whose draw j gives a residue
\* j % total not tried yet
val_draw ==
    /\ \E j \in Rand :
        /\ (j % vh.total) \notin vdone
        /\ stoch_hist_val(vh, j) \in Sym
        /\ vdone' = vdone \cup {j % vh.total}
        /\ vhits' = [vhits EXCEPT ![stoch_hist_val(vh, j)] = @ + 1]
    /\ UNCHANGED <<vh, stoch_hist, stoch_prev, trained, seqvars, concvars>>

NextVal == val_draw

SpecVal == InitVal /\ [][NextVal]_vars

--------------------------------------------------------------------------
(* a thread in stoch_write and a thread in stoch_read, statement by         *)
(* statement; the source takes no lock                                      *)

\* stoch_write entered: kmalloc, copy_from_user, i = 0
cw_call ==
    /\ wr.pc = "idle"
    /\ \E buf \in Buffers :
        /\ buf # <<>>
        /\ Len(trained) + Len(buf) <= MaxTrain
        /\ wr' = [pc |-> "data", buf |-> buf, i |-> 1, c |-> 0]
    /\ UNCHANGED <<stoch_hist, stoch_prev, trained, gr, ww, seqvars, valvars>>

\* h = &stoch_hist.data[stoch_prev]; h->data[x]++
cw_data ==
    /\ wr.pc = "data"
    /\ stoch_hist' = [stoch_hist EXCEPT
                        !.data[stoch_prev].data[wr.buf[wr.i]] = (@ + 1) % UINT_MOD]
    /\ wr' = [wr EXCEPT !.pc = "total", !.c = stoch_prev]
    /\ UNCHANGED <<stoch_prev, trained, gr, ww, seqvars, valvars>>

\* h->total++
cw_total ==
    /\ wr.pc = "total"
    /\ stoch_hist' = [stoch_hist EXCEPT !.data[wr.c].total = (@ + 1) % UINT_MOD]
    /\ wr' = [wr EXCEPT !.pc = "gtotal"]
    /\ UNCHANGED <<stoch_prev, trained, gr, ww, seqvars, valvars>>

\* stoch_hist.total++
cw_gtotal ==
    /\ wr.pc = "gtotal"
    /\ stoch_hist' = [stoch_hist EXCEPT !.total = (@ + 1) % UINT_MOD]
    /\ wr' = [wr EXCEPT !.pc = "prev"]
    /\ UNCHANGED <<stoch_prev, trained, gr, ww, seqvars, valvars>>

\* stoch_prev = x; i++; the loop goes on or stoch_write returns
cw_prev ==
    /\ wr.pc = "prev"
    /\ stoch_prev' = wr.buf[wr.i]
    /\ trained' = Append(trained, wr.buf[wr.i])
    /\ wr' = IF wr.i < Len(wr.buf)
             THEN [wr EXCEPT !.pc = "data", !.i = @ + 1]
             ELSE IdleWriter
    /\ UNCHANGED <<stoch_hist, gr, ww, seqvars, valvars>>

\* stoch_read entered: kmalloc, stoch_hist_gen called
cr_call ==
    /\ gr.pc = "idle"
    /\ \E count \in 1 .. MaxCount :
        gr' = [IdleReader EXCEPT !.pc = "start", !.size = count]
    /\ UNCHANGED <<stoch_hist, stoch_prev, trained, wr, ww, seqvars, valvars>>

\* stoch_hist_gen chooses its starting point
cr_start ==
    /\ gr.pc = "start"
    /\ \E j \in Rand :
        gr' = [gr EXCEPT !.pc = "loop", !.L = gen_start(stoch_hist, gr.size, j)]
    /\ UNCHANGED <<stoch_hist, stoch_prev, trained, wr, ww, seqvars, valvars>>

\* one pass of the output loop of stoch_hist_gen
cr_iter ==
    /\ gr.pc = "loop"
    /\ gr.L.i < gr.size
    /\ \E j \in Rand :
        LET L == gen_iter(stoch_hist, gr.size, gr.L, j)
        IN  gr' = [gr EXCEPT !.L = L, !.pc = IF L.hang THEN "hung" ELSE @]
    /\ UNCHANGED <<stoch_hist, stoch_prev, trained, wr, ww, seqvars, valvars>>

\* stoch_hist_gen returns; tmp[count-1] = 0; copy_to_user; return n
cr_ret ==
    /\ gr.pc = "loop"
    /\ gr.L.i >= gr.size
    /\ gr' = [gr EXCEPT !.pc = "idle", !.ubuf = [gr.L.buff EXCEPT ![gr.size] = 0]]
    /\ UNCHANGED <<stoch_hist, stoch_prev, trained, wr, ww, seqvars, valvars>>

NextConc ==
    \/ cw_call \/ cw_data \/ cw_total \/ cw_gtotal \/ cw_prev
    \/ cr_call \/ cr_start \/ cr_iter \/ cr_ret

SpecConc == Init /\ [][NextConc]_vars

--------------------------------------------------------------------------
(* two threads in stoch_write, each making one call on the fresh module;    *)
(* every ++ of stoch_hist_update is a load and a store, the source taking   *)
(* no lock and the counters being plain unsigned ints                       *)

\* stoch_write entered by thread t: kmalloc, copy_from_user, i = 0
ww_call(t) ==
    /\ ww[t].pc = "idle"
    /\ \E buf \in Buffers :
        /\ buf # <<>>
        /\ ww' = [ww EXCEPT ![t] = [pc |-> "ld_data", buf |-> buf, i |-> 1,
                                    c |-> 0, ld |-> 0]]
    /\ UNCHANGED <<stoch_hist, stoch_prev, trained, wr, gr, seqvars, valvars>>

\* h = &stoch_hist.data[stoch_prev]; h->data[x]++, the load
ww_ld_data(t) ==
    /\ ww[t].pc = "ld_data"
    /\ ww' = [ww EXCEPT ![t].pc = "st_data",
                        ![t].c = stoch_prev,
                        ![t].ld = stoch_hist.data[stoch_prev].data[ww[t].buf[ww[t].i]]]
    /\ UNCHANGED <<stoch_hist, stoch_prev, trained, wr, gr, seqvars, valvars>>

\* h->data[x]++, the store
ww_st_data(t) ==
    /\ ww[t].pc = "st_data"
    /\ stoch_hist' = [stoch_hist EXCEPT
                        !.data[ww[t].c].data[ww[t].buf[ww[t].i]] =
                            (ww[t].ld + 1) % UINT_MOD]
    /\ ww' = [ww EXCEPT ![t].pc = "ld_total"]
    /\ UNCHANGED <<stoch_prev, trained, wr, gr, seqvars, valvars>>

\* h->total++, the load
ww_ld_total(t) ==
    /\ ww[t].pc = "ld_total"
    /\ ww' = [ww EXCEPT ![t].pc = "st_total",
                        ![t].ld = stoch_hist.data[ww[t].c].total]
    /\ UNCHANGED <<stoch_hist, stoch_prev, trained, wr, gr, seqvars, valvars>>

\* h->total++, the store
ww_st_total(t) ==
    /\ ww[t].pc = "st_total"
    /\ stoch_hist' = [stoch_hist EXCEPT
                        !.data[ww[t].c].total = (ww[t].ld + 1) % UINT_MOD]
    /\ ww' = [ww EXCEPT ![t].pc = "ld_gtotal"]
    /\ UNCHANGED <<stoch_prev, trained, wr, gr, seqvars, valvars>>

\* stoch_hist.total++, the load
ww_ld_gtotal(t) ==
    /\ ww[t].pc = "ld_gtotal"
    /\ ww' = [ww EXCEPT ![t].pc = "st_gtotal", ![t].ld = stoch_hist.total]
    /\ UNCHANGED <<stoch_hist, stoch_prev, trained, wr, gr, seqvars, valvars>>

\* stoch_hist.total++, the store
ww_st_gtotal(t) ==
    /\ ww[t].pc = "st_gtotal"
    /\ stoch_hist' = [stoch_hist EXCEPT !.total = (ww[t].ld + 1) % UINT_MOD]
    /\ ww' = [ww EXCEPT ![t].pc = "prev"]
    /\ UNCHANGED <<stoch_prev, trained, wr, gr, seqvars, valvars>>

\* stoch_prev = x; i++; the loop goes on or stoch_write returns count
ww_prev(t) ==
    /\ ww[t].pc = "prev"
    /\ stoch_prev' = ww[t].buf[ww[t].i]
    /\ ww' = IF ww[t].i < Len(ww[t].buf)
             THEN [ww EXCEPT ![t].pc = "ld_data", ![t].i = @ + 1]
             ELSE [ww EXCEPT ![t].pc = "done"]
    /\ UNCHANGED <<stoch_hist, trained, wr, gr, seqvars, valvars>>

NextWW ==
    \E t \in Threads :
        \/ ww_call(t)
        \/ ww_ld_data(t)
        \/ ww_st_data(t)
        \/ ww_ld_total(t)
        \/ ww_st_total(t)
        \/ ww_ld_gtotal(t)
        \/ ww_st_gtotal(t)
        \/ ww_prev(t)

SpecWW == Init /\ [][NextWW]_vars

--------------------------------------------------------------------------
(* properties of the sequential device *)

Reads == {"read", "reread"}

\* the index (0-based) of the first 0 in b, or Len(b) if b holds none
FirstZero(b) ==
    IF \E k \in 1 .. Len(b) : b[k] = 0
    THEN (CHOOSE k \in 1 .. Len(b) : b[k] = 0 /\ \A m \in 1 .. (k - 1) : b[m] # 0) - 1
    ELSE Len(b)

\* the training stream [65, 0] repeated n times (symbol 1 for byte 65)
RepA0(n) == [k \in 1 .. (2 * n) |-> k % 2]

\* The totals are the sums of what they total, in unsigned int arithmetic.
TotalsAreSumsModUint ==
    /\ \A c \in Sym : stoch_hist.data[c].total = SumCounts(stoch_hist.data[c]) % UINT_MOD
    /\ stoch_hist.total = SumTotals(stoch_hist) % UINT_MOD

\* C1: after any training, every context's total is the sum of its counts
\* and the global total is the sum of the context totals.
C1_TotalsAreSums ==
    /\ \A c \in Sym : stoch_hist.data[c].total = SumCounts(stoch_hist.data[c])
    /\ stoch_hist.total = SumTotals(stoch_hist)

\* C3: after training only [65, 0] repeated N >= 1 times, every read of
\* count >= 2 delivers 65 at position 0 and 0 at position 1 and returns 1,
\* whatever the draws.
C3_A0EmitsA ==
    (/\ op \in Reads
     /\ rd.count >= 2
     /\ \E n \in 1 .. MaxTrain : trained = RepA0(n))
    => (rd.ubuf[1] = 1 /\ rd.ubuf[2] = 0 /\ ret = 1)

\* C4: a write of A directly followed by a write of B leaves the counts, the
\* totals and stoch_prev that one write of A \o B leaves from the same state.
C4_ChunksConcatenate ==
    [][op' = "wwrite" =>
        LET w == write_result(wpre[1], wpre[2], wbuf \o wbuf')
        IN  stoch_hist' = w.hist /\ stoch_prev' = w.prev]_vars

\* two non-empty chunks written back to back, the first ending in a non-zero byte
C4_Witness ==
    /\ op = "wwrite"
    /\ wbuf # <<>>
    /\ wpre[2] # 0
    /\ wpre[1].total # 0

\* C5: after stoch_hists_clear every count, every context total and the
\* global total are zero.
C5_ClearZeroes == (op = "clear") => (stoch_hist = ZeroHist)

\* C6: a read on a freshly loaded or just cleared model delivers only zero
\* bytes and returns 0.
C6_FreshReadsZero ==
    (op \in Reads /\ fresh)
    => (ret = 0 /\ \A k \in 1 .. rd.count : rd.ubuf[k] = 0)

\* C7: a read leaves every count, every total and stoch_prev as they were,
\* and a read replaying the same draws for the same count delivers the same
\* bytes and returns the same length.
C7_ReadKeepsModel ==
    [][(op' \in Reads =>
            stoch_hist' = stoch_hist /\ stoch_prev' = stoch_prev /\ trained' = trained)
       /\ (op' = "reread" =>
            rd'.ubuf = rd.ubuf /\ rd'.buff = rd.buff /\ ret' = ret)]_vars

\* a replayed read of a trained model that drew for a sample and emitted a symbol
C7_Witness ==
    /\ op = "reread"
    /\ stoch_hist.total # 0
    /\ rd.used >= 2
    /\ ret >= 1

\* C9: in the buffer stoch_hist_gen fills (and in the one delivered), from
\* the first 0 on (position i) every byte is 0, the returned length is i,
\* and the sampler was called and a draw taken for no position after i.
C9_TerminatedAbsorbing ==
    op \in Reads =>
        \A i \in 1 .. rd.count :
            (rd.buff[i] = 0 /\ \A k \in 1 .. (i - 1) : rd.buff[k] # 0)
            => /\ \A j \in i .. rd.count : rd.buff[j] = 0 /\ rd.ubuf[j] = 0
               /\ ret = i - 1
               /\ rd.calls <= i
               /\ rd.used <= i + 1

\* the terminator sampled at position 0 from a context 0 that holds two
\* transitions, with a position left to pad
C9_Witness ==
    /\ op = "read"
    /\ rd.count = 2
    /\ rd.buff[1] = 0
    /\ rd.calls = 1
    /\ rd.start = 0
    /\ stoch_hist.data[0].total >= 2

\* C10: the length a read returns is the index of the first 0 byte in the
\* buffer delivered, or count if it holds none; so it is within 0 .. count
\* and the bytes before it are non-zero.
C10_RetIsFirstZero ==
    op \in Reads =>
        /\ ret = FirstZero(rd.ubuf)
        /\ ret \in 0 .. rd.count
        /\ \A k \in 1 .. ret : rd.ubuf[k] # 0

\* C11: a read of count 0 is rejected with EINVAL, stores no byte anywhere
\* and leaves the model as it was.
C11_ZeroCountRejected ==
    op = "read0" =>
        /\ rd.end = "EINVAL"
        /\ ~rd.oob
        /\ stoch_hist = wpre[1]
        /\ stoch_prev = wpre[2]

\* the byte before position k of the stream b, 0 before the first
Before(b, k) == IF k = 1 THEN 0 ELSE b[k - 1]

\* how many positions of the stream b hold s right after c
TransCount(b, c, s) ==
    Cardinality({k \in 1 .. Len(b) : Before(b, k) = c /\ b[k] = s})

\* the last byte of the stream b, 0 if it is empty
LastByte(b) == IF b = <<>> THEN 0 ELSE b[Len(b)]

\* The model is the transition count of the stream trained, in unsigned
\* int arithmetic.
CountsMatchReferenceModUint ==
    /\ \A c \in Sym, s \in Sym :
            stoch_hist.data[c].data[s] = TransCount(trained, c, s) % UINT_MOD
    /\ stoch_prev = LastByte(trained)
    /\ stoch_hist.total = Len(trained) % UINT_MOD

\* C12: after the bytes b1..bn were written to the fresh module, in any
\* split, counts[c][s] is the number of k with b(k-1) = c and b(k) = s
\* (b0 = 0), stoch_prev is bn, the global total is n, and each write
\* returned the number of bytes it was given.
C12_CountsMatchReference ==
    /\ \A c \in Sym, s \in Sym :
            stoch_hist.data[c].data[s] = TransCount(trained, c, s)
    /\ stoch_prev = LastByte(trained)
    /\ stoch_hist.total = Len(trained)
    /\ op \in {"write", "wwrite"} => ret = Len(wbuf)

\* the last operation was not a read, so the reads of this state are still
\* to come
BeforeReads == op \in {"init", "write", "wwrite", "clear"}

\* C13: in every state of the sequential device, stoch_hist_val returns a
\* symbol for every context and every draw (its walk reaches a running sum
\* >= p), the starting-point walk ends on a context, and every
\* stoch_hist_gen(size), whatever it draws, returns with exactly size
\* positions filled; so does every read made.
C13_GenTerminates ==
    /\ \A c \in Sym, j \in Rand : stoch_hist_val(stoch_hist.data[c], j) \in Sym
    /\ \A j \in Rand : gen_start(stoch_hist, 1, j).start \in Sym
    /\ BeforeReads =>
            \A size \in 1 .. MaxCount :
                \A rnd \in Draws(stoch_hist, size) :
                    LET g == stoch_hist_gen(stoch_hist, size, PadTo(rnd, size + 1))
                    IN  ~g.hang /\ g.i = size /\ Len(g.buff) = size
    /\ op \in Reads => Len(rd.buff) = rd.count /\ Len(rd.ubuf) = rd.count

\* a read that filled every position with a sampled symbol, the first one
\* found at the end of the sampler's walk
C13_Witness ==
    /\ op = "read"
    /\ rd.count = MaxCount
    /\ rd.calls = MaxCount
    /\ rd.buff[1] = STOCH_HIST_SIZE - 1
    /\ rd.buff[MaxCount] # 0

\* C15: with counters that wrap, the global total is 0 only when no byte
\* was trained, and a read made after at least one byte was trained does
\* not take stoch_hist_gen's empty-model path (it draws a starting point).
C15_ZeroTotalMeansUntrained ==
    /\ stoch_hist.total = 0 => trained = <<>>
    /\ (op \in Reads /\ trained # <<>>) => rd.used >= 1

\* the context the byte at index i (1-based) of a read's buffer b was
\* sampled from: the starting point for the first, else the byte before
ContextOf(b, i) == IF i = 1 THEN rd.start ELSE b[i - 1]

\* C16: every non-zero byte s that a read put at position i, in the buffer
\* stoch_hist_gen filled and in the one delivered, has
\* counts[c][s] > 0, c being the starting context for i = 0 and the byte at
\* i - 1 otherwise.
C16_EmitsTrainedTransitions ==
    op \in Reads =>
        \A i \in 1 .. rd.count :
            /\ rd.buff[i] # 0 =>
                    stoch_hist.data[ContextOf(rd.buff, i)].data[rd.buff[i]] > 0
            /\ rd.ubuf[i] # 0 =>
                    stoch_hist.data[ContextOf(rd.ubuf, i)].data[rd.ubuf[i]] > 0

\* a read that started in another context than 0 and sampled two non-zero
\* bytes, the second in the context of the first
C16_Witness ==
    /\ op = "read"
    /\ rd.count >= 2
    /\ rd.start # 0
    /\ rd.buff[1] # 0
    /\ rd.buff[2] # 0
    /\ rd.calls = 2

\* C17: whenever the global total is not 0, the starting context that
\* stoch_hist_gen chooses has a total > 0, for every draw; so has the one
\* that a read made chose.
C17_StartContextNonEmpty ==
    stoch_hist.total > 0 =>
        /\ \A r \in Rand :
                stoch_hist.data[gen_start(stoch_hist, 1, r).start].total > 0
        /\ op \in Reads => stoch_hist.data[rd.start].total > 0

--------------------------------------------------------------------------
(* properties of the sampler alone *)

\* C2: once the residue j % total has taken every value in [0, total), each
\* symbol s has been returned exactly counts[s] times (so a symbol of count
\* 0 never).
C2_SamplerMatchesCounts ==
    (vh.total > 0 /\ vdone = 0 .. (vh.total - 1))
    => \A s \in Sym : vhits[s] = vh.data[s]

--------------------------------------------------------------------------
(* properties of the concurrent threads *)

\* the reader's next statement reads the histogram
ReaderReads ==
    \/ gr.pc = "start"
    \/ gr.pc = "loop" /\ gr.L.i < gr.size /\ gr.L.pos = gr.size

\* C8: whenever stoch_hist_gen reads the histogram, every context's total is
\* the sum of its counts and the global total the sum of the context
\* totals (in unsigned int arithmetic, so that only a half-done update can
\* break it).
C8_NoTornRead == ReaderReads => TotalsAreSumsModUint

\* both threads of the pair have returned from stoch_write
BothDone == \A t \in Threads : ww[t].pc = "done"

\* what stoch_write(a) and then stoch_write(b) leave of the fresh module
InOrder(a, b) ==
    LET w == write_result(clear_result(ZeroHist), 0, a)
    IN  write_result(w.hist, w.prev, b)

\* C14: when two concurrent writes of m and n bytes have both returned, the
\* global total has grown by m + n, the totals are the sums of what they
\* total, and the model is the one that one of the two sequential orders
\* of the calls leaves (all in unsigned int arithmetic, so that only the
\* interleaving can break it).
C14_ConcurrentWritesSerialize ==
    BothDone =>
        /\ stoch_hist.total = (Len(ww[1].buf) + Len(ww[2].buf)) % UINT_MOD
        /\ TotalsAreSumsModUint
        /\ \E o \in {InOrder(ww[1].buf, ww[2].buf), InOrder(ww[2].buf, ww[1].buf)} :
                stoch_hist = o.hist /\ stoch_prev = o.prev

====
